---- MODULE Spec2Model ----
(***************************************************************************)
(* Model of backend/app.py: the Flask request handlers of the legal        *)
(* document simplifier, their validation, the canned (no credential)       *)
(* replies, the fence stripping and JSON parsing of the model's reply and  *)
(* the error handling around the external model call.                      *)
(*                                                                         *)
(* Texts.  A Python str is a sequence of strings ("chunks").  A text the   *)
(* code inspects character by character (strip, startswith, slicing, in,   *)
(* lower, json.loads) is written one character per chunk; a literal the    *)
(* code only passes through (a canned reply, an error message, a prompt    *)
(* template) is written as one chunk.  A chunk of several characters       *)
(* neither starts nor ends with whitespace.                                *)
(*                                                                         *)
(* JSON / Python values are tagged records [t, v]:                         *)
(*   null/None, bool, num (int), str (a text), arr (a sequence of values), *)
(*   obj (a function from texts to values; <<>> is the empty dict).        *)
(***************************************************************************)
EXTENDS Integers, Sequences, FiniteSets, TLC

\* ------------------------------------------------------------------ bounds
\* longest enumerated body of a model reply (characters over CoreAlphabet)
MaxCore == 4
\* most pieces concatenated into a question
MaxPieces == 2
\* longest conversation history sent with a question
MaxHist == 4
\* threads serving requests at the same time
MaxWorkers == 2

\* ------------------------------------------------------------ Python values
JNull == [t |-> "null", v |-> <<>>]
JBool(b) == [t |-> "bool", v |-> b]
JNum(n) == [t |-> "num", v |-> n]
JStr(s) == [t |-> "str", v |-> s]
JArr(a) == [t |-> "arr", v |-> a]
JObj(f) == [t |-> "obj", v |-> f]

\* bool(x): the truth value Python gives a value in (if x) and (not x)
Truthy(x) ==
  CASE x.t = "null" -> FALSE
    [] x.t = "bool" -> x.v
    [] x.t = "num"  -> x.v # 0
    [] x.t = "str"  -> x.v # <<>>
    [] x.t = "arr"  -> x.v # <<>>
    [] x.t = "obj"  -> DOMAIN x.v # {}

\* ------------------------------------------------------------- str methods
Whitespace == {" ", "\n", "\t", "\r"}

SetMin(S) == CHOOSE x \in S : \A y \in S : x <= y
SetMax(S) == CHOOSE x \in S : \A y \in S : x >= y

\* str.strip(): drop leading and trailing whitespace
Strip(s) ==
  LET keep == {i \in 1..Len(s) : s[i] \notin Whitespace}
  IN  IF keep = {} THEN <<>> ELSE SubSeq(s, SetMin(keep), SetMax(keep))

\* str.startswith(p), str.endswith(p)
StartsWith(s, p) == Len(s) >= Len(p) /\ SubSeq(s, 1, Len(p)) = p
EndsWith(s, p) == Len(s) >= Len(p) /\ SubSeq(s, Len(s) - Len(p) + 1, Len(s)) = p

\* (sub in s) for two strs: sub occurs in s as a substring
InStr(sub, s) ==
  \E i \in 0..(Len(s) - Len(sub)) : SubSeq(s, i + 1, i + Len(sub)) = sub

LowerChar(c) ==
  CASE c = "A" -> "a" [] c = "B" -> "b" [] c = "C" -> "c" [] c = "D" -> "d"
    [] c = "E" -> "e" [] c = "F" -> "f" [] c = "G" -> "g" [] c = "H" -> "h"
    [] c = "I" -> "i" [] c = "J" -> "j" [] c = "K" -> "k" [] c = "L" -> "l"
    [] c = "M" -> "m" [] c = "N" -> "n" [] c = "O" -> "o" [] c = "P" -> "p"
    [] c = "Q" -> "q" [] c = "R" -> "r" [] c = "S" -> "s" [] c = "T" -> "t"
    [] c = "U" -> "u" [] c = "V" -> "v" [] c = "W" -> "w" [] c = "X" -> "x"
    [] c = "Y" -> "y" [] c = "Z" -> "z" [] OTHER -> c

\* str.lower()
Lower(s) == [i \in 1..Len(s) |-> LowerChar(s[i])]

\* str.replace(old, new): every non-overlapping occurrence, left to right
RECURSIVE Replace(_, _, _)
Replace(s, old, new) ==
  IF s = <<>> THEN <<>>
  ELSE IF StartsWith(s, old)
       THEN new \o Replace(SubSeq(s, Len(old) + 1, Len(s)), old, new)
       ELSE <<s[1]>> \o Replace(Tail(s), old, new)

\* ------------------------------------------------------------- json.loads
\* The decoder of the standard library on the characters the replies are
\* made of: whitespace, [ ] { } , : " digits - and the literals null, true,
\* false.  Replies hold no backslash, no "." and no exponent.
Digits == {"0", "1", "2", "3", "4", "5", "6", "7", "8", "9"}

DigitVal(c) ==
  CASE c = "0" -> 0 [] c = "1" -> 1 [] c = "2" -> 2 [] c = "3" -> 3
    [] c = "4" -> 4 [] c = "5" -> 5 [] c = "6" -> 6 [] c = "7" -> 7
    [] c = "8" -> 8 [] c = "9" -> 9

ParseFail == [ok |-> FALSE, val |-> JNull, pos |-> 0]
ParseOk(v, p) == [ok |-> TRUE, val |-> v, pos |-> p]

\* index of the first non-whitespace character at or after i
RECURSIVE SkipWS(_, _)
SkipWS(s, i) ==
  IF i <= Len(s) /\ s[i] \in Whitespace THEN SkipWS(s, i + 1) ELSE i

At(s, i, c) == i <= Len(s) /\ s[i] = c

\* a string body starting at i (after the opening quote)
ScanString(s, i) ==
  LET quotes == {j \in i..Len(s) : s[j] = "\""}
  IN  IF quotes = {} THEN ParseFail
      ELSE LET e == SetMin(quotes)
               body == SubSeq(s, i, e - 1)
           IN  IF \E k \in 1..Len(body) : body[k] \in {"\n", "\t", "\r"}
               THEN ParseFail
               ELSE ParseOk(JStr(body), e + 1)

\* the digits of an integer starting at i: 0 | [1-9][0-9]*
RECURSIVE ScanDigits(_, _, _)
ScanDigits(s, i, acc) ==
  IF i <= Len(s) /\ s[i] \in Digits
  THEN ScanDigits(s, i + 1, 10 * acc + DigitVal(s[i]))
  ELSE [val |-> acc, pos |-> i]

ScanNumber(s, i) ==
  LET neg == At(s, i, "-")
      d == IF neg THEN i + 1 ELSE i
  IN  IF ~(d <= Len(s) /\ s[d] \in Digits) THEN ParseFail
      ELSE IF s[d] = "0" THEN ParseOk(JNum(0), d + 1)
      ELSE LET r == ScanDigits(s, d, 0)
           IN  ParseOk(JNum(IF neg THEN 0 - r.val ELSE r.val), r.pos)

RECURSIVE ScanOnce(_, _), ScanArray(_, _, _), ScanObject(_, _, _)

\* scan_once: one JSON value starting at i
ScanOnce(s, i) ==
  IF i > Len(s) THEN ParseFail
  ELSE IF s[i] = "\"" THEN ScanString(s, i + 1)
  ELSE IF s[i] = "{" THEN
    LET j == SkipWS(s, i + 1)
    IN  IF At(s, j, "}") THEN ParseOk(JObj(<<>>), j + 1)
        ELSE ScanObject(s, j, <<>>)
  ELSE IF s[i] = "[" THEN
    LET j == SkipWS(s, i + 1)
    IN  IF At(s, j, "]") THEN ParseOk(JArr(<<>>), j + 1)
        ELSE ScanArray(s, j, <<>>)
  ELSE IF StartsWith(SubSeq(s, i, Len(s)), <<"n", "u", "l", "l">>)
    THEN ParseOk(JNull, i + 4)
  ELSE IF StartsWith(SubSeq(s, i, Len(s)), <<"t", "r", "u", "e">>)
    THEN ParseOk(JBool(TRUE), i + 4)
  ELSE IF StartsWith(SubSeq(s, i, Len(s)), <<"f", "a", "l", "s", "e">>)
    THEN ParseOk(JBool(FALSE), i + 5)
  ELSE ScanNumber(s, i)

\* JSONArray: the elements from i on, acc holding those already read
ScanArray(s, i, acc) ==
  LET r == ScanOnce(s, i)
  IN  IF ~r.ok THEN ParseFail
      ELSE LET k == SkipWS(s, r.pos)
               got == Append(acc, r.val)
           IN  IF At(s, k, "]") THEN ParseOk(JArr(got), k + 1)
               ELSE IF At(s, k, ",") THEN ScanArray(s, SkipWS(s, k + 1), got)
               ELSE ParseFail

\* JSONObject: the members from i on (i at a key's opening quote); a key
\* given twice keeps its last value
ScanObject(s, i, acc) ==
  IF ~At(s, i, "\"") THEN ParseFail
  ELSE LET key == ScanString(s, i + 1)
       IN  IF ~key.ok THEN ParseFail
           ELSE LET c == SkipWS(s, key.pos)
                IN  IF ~At(s, c, ":") THEN ParseFail
                    ELSE LET r == ScanOnce(s, SkipWS(s, c + 1))
                         IN  IF ~r.ok THEN ParseFail
                             ELSE LET k == SkipWS(s, r.pos)
                                      got == (key.val.v :> r.val) @@ acc
                                  IN  IF At(s, k, "}") THEN ParseOk(JObj(got), k + 1)
                                      ELSE IF At(s, k, ",")
                                           THEN ScanObject(s, SkipWS(s, k + 1), got)
                                           ELSE ParseFail

\* json.loads(s): [ok |-> FALSE] stands for json.JSONDecodeError
json_loads(s) ==
  LET r == ScanOnce(s, SkipWS(s, 1))
  IN  IF ~r.ok THEN ParseFail
      ELSE IF SkipWS(s, r.pos) = Len(s) + 1 THEN ParseOk(r.val, Len(s) + 1)
      ELSE ParseFail

\* ------------------------------------------------------- fence stripping
\* the backquote character U+0060 (the lexer admits no backquote in a string)
Backtick == "<backquote>"
Backticks == <<Backtick, Backtick, Backtick>>
JsonFence == Backticks \o <<"j", "s", "o", "n">>
FenceOpenLen == 7
FenceCloseLen == 3

\* StripFences without the strip() before the fence tests
StripFences_untrimmed(text) ==
  LET t1 == IF StartsWith(text, JsonFence)
            THEN SubSeq(text, FenceOpenLen + 1, Len(text)) ELSE text
  IN  IF EndsWith(t1, Backticks)
      THEN SubSeq(t1, 1, Len(t1) - FenceCloseLen) ELSE t1

\* response_text = response.text.strip(), minus a leading fence
\* (three backquotes and json), minus a trailing fence (three backquotes)
StripFences(text) ==
  LET t0 == Strip(text)
      t1 == IF StartsWith(t0, JsonFence)
            THEN SubSeq(t0, FenceOpenLen + 1, Len(t0)) ELSE t0
  IN  IF EndsWith(t1, Backticks)
      THEN SubSeq(t1, 1, Len(t1) - FenceCloseLen) ELSE t1


\* ------------------------------------------------ dict and list operations
None == JNull
TextKey == <<"text">>
QuestionKey == <<"question">>
HistoryKey == <<"history">>
AnswerKey == <<"answer">>

Raise(cause) == [raised |-> TRUE, val |-> None, cause |-> cause]
Return(v) == [raised |-> FALSE, val |-> v, cause |-> <<>>]

\* (key in d): dict membership, list membership, substring of a str; any
\* other operand is a TypeError
In(key, d) ==
  CASE d.t = "obj" -> Return(JBool(key \in DOMAIN d.v))
    [] d.t = "arr" -> Return(JBool(\E i \in 1..Len(d.v) : d.v[i] = JStr(key)))
    [] d.t = "str" -> Return(JBool(InStr(key, d.v)))
    [] OTHER -> Raise(<<"TypeError">>)

\* d[key] of a dict that may lack the key: KeyError; of a list, a str or
\* any other value: TypeError
GetItem(d, key) ==
  IF d.t = "obj"
  THEN IF key \in DOMAIN d.v THEN Return(d.v[key]) ELSE Raise(<<"KeyError">>)
  ELSE Raise(<<"TypeError">>)

\* d[key].strip(): AttributeError when the value is no str
StripItem(d, key) ==
  LET item == GetItem(d, key)
  IN  IF item.raised THEN item
      ELSE IF item.val.t # "str" THEN Raise(<<"AttributeError">>)
      ELSE Return(JStr(Strip(item.val.v)))

\* the test (not data or k1 not in data or k2 not in data ...), left to
\* right: "missing", "present", or "raise" when (in) raises
RECURSIVE Lacks(_, _)
Lacks(data, keys) ==
  IF ~Truthy(data) THEN "missing"
  ELSE IF keys = <<>> THEN "present"
  ELSE LET has == In(Head(keys), data)
       IN  IF has.raised THEN "raise"
           ELSE IF ~has.val.v THEN "missing"
           ELSE Lacks(data, Tail(keys))

\* ------------------------------------------------------ request.get_json()
\* a request: [json: the Content-Type is application/json, body: the parsed
\* body, or NoBody when the request carries none]
NoBody == [t |-> "absent", v |-> <<>>]

\* get_json() raises (an HTTPException) on a JSON request without a
\* parsable body; on another Content-Type it returns None, or raises where
\* the installed Flask/Werkzeug is strict about the content type
get_json(strict, r) ==
  IF ~r.json
  THEN IF strict THEN Raise(<<"UnsupportedMediaType">>) ELSE Return(None)
  ELSE IF r.body = NoBody THEN Raise(<<"BadRequest">>)
  ELSE Return(r.body)

\* ------------------------------------------------------- handler outcomes
\* what a handler leaves behind: the response (status, JSON body), the
\* prompts it sent to the model, the lines it logged and its local
\* response_text (the text handed to json.loads), when it got that far
Unset == [set |-> FALSE, text |-> <<>>]
Set(t) == [set |-> TRUE, text |-> t]
LogLine(level, msg, arg) == [level |-> level, msg |-> msg, arg |-> arg]

Outcome(status, body, sent, log, rt) ==
  [status |-> status, body |-> body, sent |-> sent, log |-> log,
   response_text |-> rt]

ErrorBody(msg) == JObj(<<"error">> :> JStr(<<msg>>))

\* return jsonify({'error': msg}), 400
BadRequest(msg) == Outcome(400, ErrorBody(msg), <<>>, <<>>, Unset)

\* ServerError answering with str(e) in place of the fixed message
ServerError_leaks(name, msg, cause, sent, log, rt) ==
  Outcome(500, JObj(<<"error">> :> JStr(cause)), sent,
          Append(log, LogLine("error", <<"Error in ", name, ": ">>, cause)), rt)

\* except Exception as e: logger.error(f"Error in {name}: {str(e)}");
\* return jsonify({'error': msg}), 500
ServerError(name, msg, cause, sent, log, rt) ==
  Outcome(500, ErrorBody(msg), sent,
          Append(log, LogLine("error", <<"Error in ", name, ": ">>, cause)), rt)

\* return jsonify(body) [, 200]
Ok(body, sent, log, rt) == Outcome(200, body, sent, log, rt)

\* where a handler stands before the model call: done, with its outcome, or
\* about to call the model with a prompt
Done(out) == [done |-> TRUE, out |-> out, prompt |-> <<>>]
CallModel(prompt) == [done |-> FALSE, out |-> BadRequest(""), prompt |-> prompt]
\* validation passed: not done, the stripped text in place of the prompt
Checked(text) == CallModel(text)

\* NotModel with the test for a missing handle left out
NotModel_unchecked(mdl) == FALSE

\* (if not model): no model handle was created
NotModel(mdl) == mdl = None

\* the handlers' messages
Messages(missing, empty, failed, name) ==
  [missing |-> missing, empty |-> empty, failed |-> failed, name |-> name]

\* The part that /api/simplify, /api/redflags, /api/improve and
\* /api/suggestions share: get_json and the two 400 tests.  Done with the
\* error response, or Checked with the stripped text.
ValidateText(strict, r, m) ==
  LET got == get_json(strict, r)
  IN  IF got.raised
      THEN Done(ServerError(m.name, m.failed, got.cause, <<>>, <<>>, Unset))
      ELSE LET data == got.val
               lacks == Lacks(data, <<TextKey>>)
           IN  IF lacks = "missing" THEN Done(BadRequest(m.missing))
               ELSE IF lacks = "raise"
               THEN Done(ServerError(m.name, m.failed, <<"TypeError">>, <<>>, <<>>, Unset))
               ELSE LET text == StripItem(data, TextKey)
                    IN  IF text.raised
                        THEN Done(ServerError(m.name, m.failed, text.cause, <<>>, <<>>, Unset))
                        ELSE IF ~Truthy(text.val) THEN Done(BadRequest(m.empty))
                        ELSE Checked(text.val.v)

\* ----------------------------------------------------- the model call
\* what model.generate_content(prompt) followed by response.text gives:
\* a text, or an exception (transport failure, quota, blocked reply)
NoReply == [raised |-> FALSE, text |-> <<"<not invoked>">>, cause |-> <<>>]
ReplyText(t) == [raised |-> FALSE, text |-> t, cause |-> <<>>]
ReplyFails(c) == [raised |-> TRUE, text |-> <<>>, cause |-> c]

DigitChar(d) ==
  CASE d = 0 -> "0" [] d = 1 -> "1" [] d = 2 -> "2" [] d = 3 -> "3"
    [] d = 4 -> "4" [] d = 5 -> "5" [] d = 6 -> "6" [] d = 7 -> "7"
    [] d = 8 -> "8" [] d = 9 -> "9"

\* str(n) of a length
RECURSIVE NumText(_)
NumText(n) ==
  IF n < 10 THEN <<DigitChar(n)>> ELSE NumText(n \div 10) \o <<DigitChar(n % 10)>>

\* len(x) is defined for a str, a list and a dict; TypeError otherwise
HasLen(x) == x.t \in {"str", "arr", "obj"}
PyLen(x) == IF x.t = "obj" THEN Cardinality(DOMAIN x.v) ELSE Len(x.v)

\* response = model.generate_content(prompt); text = response.text;
\* logger.info(...); return jsonify({key: text})
TextExit(mdl, m, key, info, prompt, reply) ==
  IF mdl = None
  THEN ServerError(m.name, m.failed, <<"AttributeError">>, <<>>, <<>>, Unset)
  ELSE IF reply.raised
  THEN ServerError(m.name, m.failed, reply.cause, <<prompt>>, <<>>, Unset)
  ELSE Ok(JObj(key :> JStr(reply.text)), <<prompt>>,
          <<LogLine("info", <<info>>, <<>>)>>, Unset)

\* LoadsOrFallback putting an empty list in place of the fallback record
LoadsOrFallback_empty(response_text, fallback) ==
  LET p == json_loads(response_text)
  IN  IF p.ok THEN [val |-> p.val, log |-> <<>>]
      ELSE [val |-> JArr(<<>>),
            log |-> <<LogLine("error", <<"Invalid JSON response: ">>, response_text)>>]

\* try: value = json.loads(response_text)
\* except json.JSONDecodeError: logger.error(...); value = fallback
LoadsOrFallback(response_text, fallback) ==
  LET p == json_loads(response_text)
  IN  IF p.ok THEN [val |-> p.val, log |-> <<>>]
      ELSE [val |-> fallback,
            log |-> <<LogLine("error", <<"Invalid JSON response: ">>, response_text)>>]

\* response_text = response.text.strip(); the fences are stripped; the text
\* is parsed or replaced by the fallback; logger.info(f"... {len(value)} ...");
\* return jsonify(value), or jsonify({under: value}) when under names a key
JsonExit(mdl, m, fallback, under, info, prompt, reply) ==
  IF mdl = None
  THEN ServerError(m.name, m.failed, <<"AttributeError">>, <<>>, <<>>, Unset)
  ELSE IF reply.raised
  THEN ServerError(m.name, m.failed, reply.cause, <<prompt>>, <<>>, Unset)
  ELSE LET response_text == StripFences(reply.text)
           got == LoadsOrFallback(response_text, fallback)
       IN  IF ~HasLen(got.val)
           THEN ServerError(m.name, m.failed, <<"TypeError">>, <<prompt>>, got.log,
                            Set(response_text))
           ELSE Ok(IF under = <<>> THEN got.val ELSE JObj(under :> got.val), <<prompt>>,
                   Append(got.log, LogLine("info", info, NumText(PyLen(got.val)))),
                   Set(response_text))

\* ------------------------------------------------------------ /api/simplify
SimplifyMessages ==
  Messages("No document text provided", "Empty document text",
           "Failed to process document. Please try again.", "simplify_document")

\* the canned summary (its first line; the rest is fixed text as well)
SimplifyMock(document_text) ==
  JObj(<<"simplified_text">> :> JStr(<<"**SIMPLIFIED SUMMARY** ...">>))

\* the prompt template around the document (abridged to its first sentence)
SimplifyPrompt(document_text) ==
  <<"You are a legal document simplifier. ... Document to analyze:">>
    \o document_text \o <<"Please provide a simplified summary with: ...">>

simplify_entry(strict, mdl, r) ==
  LET checked == ValidateText(strict, r, SimplifyMessages)
      document_text == checked.prompt
  IN  IF checked.done THEN checked
      ELSE IF NotModel(mdl) THEN Done(Ok(SimplifyMock(document_text), <<>>, <<>>, Unset))
      ELSE CallModel(SimplifyPrompt(document_text))

simplify_exit(mdl, prompt, reply) ==
  TextExit(mdl, SimplifyMessages, <<"simplified_text">>,
           "Document simplified successfully", prompt, reply)

\* ------------------------------------------------------------ /api/redflags
RedFlagsMessages ==
  Messages("No document text provided", "Empty document text",
           "Failed to analyze document. Please try again.", "analyze_red_flags")

RedFlag(clause, risk, explanation) ==
  JObj((<<"clause">> :> JStr(<<clause>>)) @@ (<<"risk">> :> JStr(<<risk>>))
       @@ (<<"explanation">> :> JStr(<<explanation>>)))

RedFlagsMock(document_text) ==
  JArr(<<
    RedFlag("Monthly rent: ₹25,000 due on the 1st of each month", "safe",
      "Standard rent payment terms with clear due date. This is normal and reasonable."),
    RedFlag("Late fee: ₹500 per day after 5 days grace period", "moderate",
      "Daily late fees can accumulate quickly (₹15,000/month). This is higher than typical market rates."),
    RedFlag("Security deposit: ₹75,000 (3 months rent)", "moderate",
      "Three months security deposit is above average. Standard is usually 1-2 months rent."),
    RedFlag("Early termination penalty: 2 months rent if terminated before 6 months", "dangerous",
      "₹50,000 penalty for early exit is very high. Consider negotiating a graduated penalty structure."),
    RedFlag("Rent increase: 10% annually after first year", "dangerous",
      "10% annual increase is above market inflation. This could significantly impact your budget over time."),
    RedFlag("Tenant responsible for minor repairs under ₹5,000", "moderate",
      "₹5,000 threshold is reasonable, but ensure 'minor repairs' are clearly defined to avoid disputes.")
  >>)

RedFlagsPrompt(document_text) ==
  <<"You are a legal expert analyzing a contract for potential risks. ... Document to analyze:">>
    \o document_text \o <<"... Return ONLY the JSON array, no other text.">>

RedFlagsFallback ==
  JArr(<<RedFlag("Unable to parse contract clauses", "moderate",
    "There was an issue analyzing your contract. Please try uploading again or contact support.")>>)

analyze_red_flags_entry(strict, mdl, r) ==
  LET checked == ValidateText(strict, r, RedFlagsMessages)
      document_text == checked.prompt
  IN  IF checked.done THEN checked
      ELSE IF NotModel(mdl) THEN Done(Ok(RedFlagsMock(document_text), <<>>, <<>>, Unset))
      ELSE CallModel(RedFlagsPrompt(document_text))

analyze_red_flags_exit(mdl, prompt, reply) ==
  JsonExit(mdl, RedFlagsMessages, RedFlagsFallback, <<>>,
           <<"Red flag analysis completed with {} clauses identified">>, prompt, reply)

\* ------------------------------------------------------------------ /api/qa
QAMessages ==
  Messages("Document text and question are required",
           "Both document text and question must be provided",
           "Failed to process question. Please try again.", "answer_question")

\* mock_answers (each abridged to its first clause)
MockRisk == <<"Based on the rental agreement, the main risks include: ...">>
MockTerminate == <<"You can terminate this contract early, but there are penalties: ...">>
MockFinancial == <<"Your financial obligations include: ...">>
MockDefault == <<"I can help you understand any aspect of your legal document. ...">>

KwRisk == <<"r", "i", "s", "k">>
KwDanger == <<"d", "a", "n", "g", "e", "r">>
KwTerminate == <<"t", "e", "r", "m", "i", "n", "a", "t", "e">>
KwExit == <<"e", "x", "i", "t">>
KwLeave == <<"l", "e", "a", "v", "e">>
KwFinancial == <<"f", "i", "n", "a", "n", "c", "i", "a", "l">>
KwMoney == <<"m", "o", "n", "e", "y">>
KwCost == <<"c", "o", "s", "t">>
KwPay == <<"p", "a", "y">>

\* MockAnswer matching on the question as typed, not lowered
MockAnswer_cased(question) ==
  IF InStr(KwRisk, question) \/ InStr(KwDanger, question)
  THEN MockRisk
  ELSE IF InStr(KwTerminate, question) \/ InStr(KwExit, question)
          \/ InStr(KwLeave, question)
  THEN MockTerminate
  ELSE IF InStr(KwFinancial, question) \/ InStr(KwMoney, question)
          \/ InStr(KwCost, question) \/ InStr(KwPay, question)
  THEN MockFinancial
  ELSE MockDefault

\* MockAnswer with the financial answer as the last else
MockAnswer_else(question) ==
  LET question_lower == Lower(question)
  IN  IF InStr(KwRisk, question_lower) \/ InStr(KwDanger, question_lower)
      THEN MockRisk
      ELSE IF InStr(KwTerminate, question_lower) \/ InStr(KwExit, question_lower)
              \/ InStr(KwLeave, question_lower)
      THEN MockTerminate
      ELSE MockFinancial

\* the keyword match on the lowered question, first match wins
MockAnswer(question) ==
  LET question_lower == Lower(question)
  IN  IF InStr(KwRisk, question_lower) \/ InStr(KwDanger, question_lower)
      THEN MockRisk
      ELSE IF InStr(KwTerminate, question_lower) \/ InStr(KwExit, question_lower)
              \/ InStr(KwLeave, question_lower)
      THEN MockTerminate
      ELSE IF InStr(KwFinancial, question_lower) \/ InStr(KwMoney, question_lower)
              \/ InStr(KwCost, question_lower) \/ InStr(KwPay, question_lower)
      THEN MockFinancial
      ELSE MockDefault

\* LastEntries taking the first entries, history[:3]
LastEntries_first(h) == SubSeq(h, 1, IF Len(h) > 3 THEN 3 ELSE Len(h))

\* history[-3:] keeps the last three entries of a list
HistoryWindow == 3
LastEntries(h) ==
  SubSeq(h, IF Len(h) > HistoryWindow THEN Len(h) - HistoryWindow + 1 ELSE 1, Len(h))

\* what an f-string makes of a value
Format(x) ==
  CASE x.t = "str" -> x.v
    [] x.t = "null" -> <<"None">>
    [] x.t = "num" -> IF x.v >= 0 THEN NumText(x.v) ELSE <<"-">> \o NumText(0 - x.v)
    [] OTHER -> <<"<repr>">>

\* context += f"Q: {item['question']}\nA: {item['answer']}\n\n" for each item
RECURSIVE ContextLines(_)
ContextLines(items) ==
  IF items = <<>> THEN Return(JStr(<<>>))
  ELSE LET q == GetItem(Head(items), QuestionKey)
           a == GetItem(Head(items), AnswerKey)
           rest == ContextLines(Tail(items))
       IN  IF q.raised THEN q
           ELSE IF a.raised THEN a
           ELSE IF rest.raised THEN rest
           ELSE Return(JStr(<<"Q: ">> \o Format(q.val) \o <<"\nA: ">> \o Format(a.val)
                            \o <<"\n\n">> \o rest.val.v))

\* context = "" ; if history: the header and the last three entries.
\* Slicing a str gives its characters, which have no ['question'];
\* slicing a dict, a number or a bool is a TypeError.
Context(history) ==
  IF ~Truthy(history) THEN Return(JStr(<<>>))
  ELSE IF history.t = "arr"
  THEN LET lines == ContextLines(LastEntries(history.v))
       IN  IF lines.raised THEN lines
           ELSE Return(JStr(<<"\n\nPrevious conversation:\n">> \o lines.val.v))
  ELSE Raise(<<"TypeError">>)

QAPrompt(document_text, context, question) ==
  <<"You are a helpful legal assistant. ... Document content:">> \o document_text
    \o context \o <<"User's question: ">> \o question
    \o <<"Please provide a clear, helpful answer that: ...">>

\* data.get('history', [])
GetHistory(data) ==
  IF HistoryKey \in DOMAIN data.v THEN data.v[HistoryKey] ELSE JArr(<<>>)

answer_question_entry(strict, mdl, r) ==
  LET m == QAMessages
      got == get_json(strict, r)
  IN  IF got.raised
      THEN Done(ServerError(m.name, m.failed, got.cause, <<>>, <<>>, Unset))
      ELSE LET data == got.val
               lacks == Lacks(data, <<TextKey, QuestionKey>>)
           IN  IF lacks = "missing" THEN Done(BadRequest(m.missing))
               ELSE IF lacks = "raise"
               THEN Done(ServerError(m.name, m.failed, <<"TypeError">>, <<>>, <<>>, Unset))
               ELSE LET text == StripItem(data, TextKey)
                        question == StripItem(data, QuestionKey)
                    IN  IF text.raised
                        THEN Done(ServerError(m.name, m.failed, text.cause, <<>>, <<>>, Unset))
                        ELSE IF question.raised
                        THEN Done(ServerError(m.name, m.failed, question.cause, <<>>, <<>>, Unset))
                        ELSE IF ~Truthy(text.val) \/ ~Truthy(question.val)
                        THEN Done(BadRequest(m.empty))
                        ELSE IF NotModel(mdl)
                        THEN Done(Ok(JObj(AnswerKey :> JStr(MockAnswer(question.val.v))),
                                     <<>>, <<>>, Unset))
                        ELSE LET context == Context(GetHistory(data))
                             IN  IF context.raised
                                 THEN Done(ServerError(m.name, m.failed, context.cause,
                                                       <<>>, <<>>, Unset))
                                 ELSE CallModel(QAPrompt(text.val.v, context.val.v,
                                                         question.val.v))

answer_question_exit(mdl, prompt, reply) ==
  TextExit(mdl, QAMessages, AnswerKey, "Q&A response generated successfully",
           prompt, reply)

\* -------------------------------------------------------------- /api/improve
ImproveMessages ==
  Messages("No contract text provided", "Empty contract text",
           "Failed to improve contract. Please try again.", "improve_contract")

LateFeeOld == <<"₹500 per day after 5 days grace period">>
LateFeeNew == <<"₹200 per day after 7 days grace period">>
IncreaseOld == <<"15% annually after first year">>
IncreaseNew == <<"8% annually after first year, capped at market rates">>
PenaltyOld == <<"penalty of ₹60,000 if terminated within first 12 months">>
PenaltyNew ==
  <<"graduated penalty: ₹30,000 if terminated within 6 months, ₹15,000 if terminated within 12 months">>

\* the three replace() calls of the canned improvement
ImproveMock(contract_text) ==
  JObj(<<"improved_text">> :>
       JStr(Replace(Replace(Replace(contract_text, LateFeeOld, LateFeeNew),
                            IncreaseOld, IncreaseNew),
                    PenaltyOld, PenaltyNew)))

ImprovePrompt(contract_text) ==
  <<"You are a legal expert helping to improve a contract. ... Original contract:">>
    \o contract_text \o <<"Please provide an improved version that: ...">>

improve_contract_entry(strict, mdl, r) ==
  LET checked == ValidateText(strict, r, ImproveMessages)
      contract_text == checked.prompt
  IN  IF checked.done THEN checked
      ELSE IF NotModel(mdl) THEN Done(Ok(ImproveMock(contract_text), <<>>, <<>>, Unset))
      ELSE CallModel(ImprovePrompt(contract_text))

improve_contract_exit(mdl, prompt, reply) ==
  TextExit(mdl, ImproveMessages, <<"improved_text">>,
           "Contract improvement completed successfully", prompt, reply)

\* ---------------------------------------------------------- /api/suggestions
SuggestionsMessages ==
  Messages("No contract text provided", "Empty contract text",
           "Failed to generate suggestions. Please try again.", "get_suggestions")

Suggestion(title, description) ==
  JObj((<<"title">> :> JStr(<<title>>)) @@ (<<"description">> :> JStr(<<description>>))
       @@ (<<"replacement_text">> :> None))

SuggestionsBody(suggestions) == JObj(<<"suggestions">> :> suggestions)

SuggestionsMock(contract_text) ==
  SuggestionsBody(JArr(<<
    Suggestion("Reduce Late Payment Penalty",
      "The current ₹500/day late fee is excessive. Industry standard is ₹100-200/day."),
    Suggestion("Add Grace Period for Rent Increase",
      "15% annual increase is high. Suggest capping at 8% or market rate, whichever is lower."),
    Suggestion("Clarify Repair Responsibilities",
      "Define 'minor repairs' more clearly to avoid disputes about the ₹10,000 threshold."),
    Suggestion("Add Tenant Protection Clause",
      "Include protection against arbitrary eviction and ensure proper notice periods.")
  >>))

SuggestionsPrompt(contract_text) ==
  <<"You are a legal expert analyzing a contract. Provide specific improvement suggestions. ... Contract text:">>
    \o contract_text \o <<"... Return ONLY the JSON array, no other text.">>

SuggestionsFallback ==
  JArr(<<JObj((<<"title">> :> JStr(<<"Review Contract Terms">>))
              @@ (<<"description">> :> JStr(<<"There was an issue analyzing your contract. Please try again or contact support.">>)))>>)

get_suggestions_entry(strict, mdl, r) ==
  LET checked == ValidateText(strict, r, SuggestionsMessages)
      contract_text == checked.prompt
  IN  IF checked.done THEN checked
      ELSE IF NotModel(mdl) THEN Done(Ok(SuggestionsMock(contract_text), <<>>, <<>>, Unset))
      ELSE CallModel(SuggestionsPrompt(contract_text))

get_suggestions_exit(mdl, prompt, reply) ==
  JsonExit(mdl, SuggestionsMessages, SuggestionsFallback, <<"suggestions">>,
           <<"Generated {} suggestions successfully">>, prompt, reply)

\* --------------------------------------------------------------- /api/health
\* HealthBody reporting a handle that is None as configured
HealthBody_inverted(mdl) ==
  JObj((<<"status">> :> JStr(<<"healthy">>))
       @@ (<<"gemini_configured">> :> JBool(mdl = None))
       @@ (<<"version">> :> JStr(<<"1.0.0">>)))

HealthBody(mdl) ==
  JObj((<<"status">> :> JStr(<<"healthy">>))
       @@ (<<"gemini_configured">> :> JBool(mdl # None))
       @@ (<<"version">> :> JStr(<<"1.0.0">>)))

\* ------------------------------------------------------------- process start
\* GEMINI_API_KEY = os.getenv('GEMINI_API_KEY'): None when the variable is
\* unset, else its (possibly empty) value
GenerativeModel == [t |-> "GenerativeModel", v |-> <<"gemini-1.5-flash">>]

\* if GEMINI_API_KEY: model = genai.GenerativeModel(...) else: model = None
InitModel(key) == IF Truthy(key) THEN GenerativeModel ELSE None

\* ------------------------------------------------------------------ inputs
\* all sequences over S of length at most n
SeqsUpTo(S, n) == UNION {[1..k -> S] : k \in 0..n}

\* document texts: empty, blank, a document, a document inside whitespace
DocTexts == {<<>>, <<" ", "\n">>, <<"d">>, <<" ", "d", "\n">>}

\* contracts holding the clauses the canned improvement rewrites
ContractTexts ==
  {LateFeeOld,
   LateFeeOld \o LateFeeOld,
   <<"Fee:", " ">> \o LateFeeOld \o <<";", " ">> \o IncreaseOld \o <<" ">> \o PenaltyOld,
   <<" ">> \o PenaltyNew \o <<"\n">>}

TextObj(t) == JObj(TextKey :> JStr(t))

\* bodies sent to the endpoints that read only "text"
TextBodies ==
  {NoBody, None, JObj(<<>>), JArr(<<>>), JArr(<<JStr(TextKey)>>), JStr(TextKey),
   JStr(<<"x">>), JStr(<<>>), JNum(0), JNum(1), JBool(TRUE),
   JObj(QuestionKey :> JStr(<<"q">>)), JObj(TextKey :> None),
   JObj(TextKey :> JNum(1)), JObj(TextKey :> JArr(<<>>))}
  \cup {TextObj(t) : t \in DocTexts}

Requests(endpoint, bodies) ==
  {[endpoint |-> endpoint, json |-> TRUE, body |-> b] : b \in bodies}
  \cup {[endpoint |-> endpoint, json |-> FALSE, body |-> b] :
          b \in {NoBody, TextObj(<<"d">>)}}

\* questions: up to MaxPieces pieces, one after the other
Pieces ==
  {KwRisk, KwDanger, KwTerminate, KwExit, KwLeave, KwFinancial, KwMoney, KwCost,
   KwPay, <<"T", "e", "r", "m", "i", "n", "A", "T", "E">>, <<"r", "i">>, <<"s", "k">>,
   <<" ">>, <<"w", "h", "y">>}

RECURSIVE Concat(_)
Concat(ss) == IF ss = <<>> THEN <<>> ELSE Head(ss) \o Concat(Tail(ss))

Questions == {Concat(ps) : ps \in SeqsUpTo(Pieces, MaxPieces)}

QAObj(t, q) == (TextKey :> t) @@ (QuestionKey :> q)

\* history entries: two well-formed ones and one without an answer
Entry(q, a) == JObj((QuestionKey :> JStr(<<q>>)) @@ (AnswerKey :> JStr(<<a>>)))
HistItems ==
  {Entry("q1", "a1"), Entry("q2", "a2"), JObj(QuestionKey :> JStr(<<"q3">>))}

Histories ==
  {JArr(h) : h \in SeqsUpTo(HistItems, MaxHist)}
  \cup {None, JStr(<<>>), JStr(<<"h">>), JObj(<<>>), JObj(<<"0">> :> Entry("q1", "a1")),
        JNum(0), JNum(1), JBool(FALSE), JArr(<<JStr(<<"h">>)>>), JArr(<<None>>),
        JArr(<<Entry("q1", "a1"), JArr(<<>>)>>),
        JArr(<<JObj((QuestionKey :> None) @@ (AnswerKey :> JNum(7)))>>)}

QABodies ==
  {NoBody, None, JObj(<<>>), JArr(<<JStr(TextKey)>>),
   JArr(<<JStr(TextKey), JStr(QuestionKey)>>), JStr(TextKey \o QuestionKey), JNum(1)}
  \cup {JObj(f) : f \in
          {TextKey :> t : t \in {None, JStr(<<>>), JStr(<<" ", "d">>)}}
          \cup {QuestionKey :> q : q \in {None, JStr(<<" ">>), JStr(<<"q">>)}}
          \cup {QAObj(t, q) : t \in {None, JStr(<<>>), JStr(<<" ", "d">>)},
                              q \in {None, JStr(<<" ">>), JStr(<<"q">>)}}}
  \cup {JObj(QAObj(JStr(<<"d">>), JStr(q))) : q \in Questions}
  \cup {JObj(QAObj(JStr(t), JStr(<<"w", "h", "y", " ">>)) @@ (HistoryKey :> h)) :
          t \in {<<"d">>, <<>>}, h \in Histories}

\* replies of the model to the endpoints that pass its text on
TextReplies ==
  {ReplyText(<<"the model's text">>), ReplyText(<<>>),
   ReplyFails(<<"ResourceExhausted: 429 quota exceeded">>),
   ReplyFails(<<"ValueError: response.text requires a valid candidate">>)}

\* replies to the endpoints that parse its text: a body, maybe between
\* fences, new lines and blanks
CoreAlphabet == {"[", "]", "1", ","}
FixedCores ==
  {<<"[", "1", ",", " ", "2", "]">>,
   <<"[", "[", "1", "]", ",", "[", "]", "]">>,
   <<"[", "{", "\"", "a", "\"", ":", "1", "}", "]">>,
   <<"[", "\"", "a", "\"", ",", "n", "u", "l", "l", ",", "t", "r", "u", "e", "]">>,
   <<"{", "}">>,
   <<"{", "\"", "a", "\"", ":", "[", "]", "}">>,
   <<"\"", "a", "\"">>, <<"\"", "\"">>,
   <<"4", "2">>, <<"0">>, <<"-", "1">>,
   <<"n", "u", "l", "l">>, <<"t", "r", "u", "e">>, <<"f", "a", "l", "s", "e">>,
   <<"n", "o", "t", " ", "j", "s", "o", "n">>, <<"n", "u", "l">>,
   <<"{", "\"", "a", "\"", "}">>, <<"[", "1", " ", "2", "]">>, <<"0", "1">>}

Cores == SeqsUpTo(CoreAlphabet, MaxCore) \cup FixedCores

ModelTexts ==
  {pad \o open \o sep \o core \o sep \o close \o pad :
     pad \in {<<>>, <<" ">>}, open \in {<<>>, JsonFence, Backticks},
     sep \in {<<>>, <<"\n">>}, core \in Cores, close \in {<<>>, Backticks}}

JsonReplies ==
  {ReplyText(t) : t \in ModelTexts}
  \cup {ReplyFails(<<"ResourceExhausted: 429 quota exceeded">>)}

\* -------------------------------------------------------------------- state
NoRequest == [endpoint |-> "", json |-> FALSE, body |-> NoBody]
NoResponse == [status |-> 0, body |-> None]

VARIABLES
  GEMINI_API_KEY,       \* the credential read at process start
  model,                \* the model handle: GenerativeModel or None
  strict_content_type,  \* the installed Flask rejects a non-JSON Content-Type
  request,              \* the request handled last
  reply,                \* what the model answered to it (NoReply: not invoked)
  response,             \* the response to it: [status, body]
  sent,                 \* the prompts passed to generate_content for it
  log,                  \* the lines logged while handling it
  response_text,        \* the handler's local response_text, when it set one
  frontend,             \* the paths with a file under ../frontend
  threads               \* the requests in progress, one per serving thread

vars == <<GEMINI_API_KEY, model, strict_content_type, request, reply, response,
          sent, log, response_text, frontend, threads>>

\* the paths a browser asks for: "/" is index.html
StaticPaths == {"/style.css", "/script.js"}
Frontends == {{}, {"/", "/style.css"}}

\* the serving threads; each has a request context of its own
Workers == 1..MaxWorkers
NoContext == [pc |-> "idle", request |-> NoRequest, prompt |-> <<>>,
              response |-> NoResponse]

Init ==
  /\ GEMINI_API_KEY \in {None, JStr(<<>>), JStr(<<"k", "e", "y">>)}
  /\ model = InitModel(GEMINI_API_KEY)
  /\ strict_content_type \in BOOLEAN
  /\ request = NoRequest
  /\ reply = NoReply
  /\ response = NoResponse
  /\ sent = <<>>
  /\ log = IF Truthy(GEMINI_API_KEY) THEN <<>>
           ELSE <<LogLine("warning",
                          <<"GEMINI_API_KEY not found in environment variables">>, <<>>)>>
  /\ response_text = Unset
  /\ frontend \in Frontends
  /\ threads = [w \in Workers |-> NoContext]

\* the server takes one request at a time
Idle == request = NoRequest

\* a handler has run on a request: its response and what it left behind
Commit(r, rep, out) ==
  /\ request' = r
  /\ reply' = rep
  /\ response' = [status |-> out.status, body |-> out.body]
  /\ sent' = out.sent
  /\ log' = out.log
  /\ response_text' = out.response_text
  /\ UNCHANGED <<GEMINI_API_KEY, model, strict_content_type, frontend, threads>>

\* the replies a call can get (a call on None never reaches the model)
Callable(mdl, replies) == IF mdl = None THEN {NoReply} ELSE replies

simplify_document ==
  /\ Idle
  /\ \E r \in Requests("/api/simplify", TextBodies) :
       LET pre == simplify_entry(strict_content_type, model, r)
       IN  IF pre.done THEN Commit(r, NoReply, pre.out)
           ELSE \E rep \in Callable(model, TextReplies) :
                  Commit(r, rep, simplify_exit(model, pre.prompt, rep))

analyze_red_flags ==
  /\ Idle
  /\ \E r \in Requests("/api/redflags", TextBodies) :
       LET pre == analyze_red_flags_entry(strict_content_type, model, r)
       IN  IF pre.done THEN Commit(r, NoReply, pre.out)
           ELSE \E rep \in Callable(model, JsonReplies) :
                  Commit(r, rep, analyze_red_flags_exit(model, pre.prompt, rep))

answer_question ==
  /\ Idle
  /\ \E r \in Requests("/api/qa", QABodies) :
       LET pre == answer_question_entry(strict_content_type, model, r)
       IN  IF pre.done THEN Commit(r, NoReply, pre.out)
           ELSE \E rep \in Callable(model, TextReplies) :
                  Commit(r, rep, answer_question_exit(model, pre.prompt, rep))

improve_contract ==
  /\ Idle
  /\ \E r \in Requests("/api/improve", TextBodies \cup {TextObj(t) : t \in ContractTexts}) :
       LET pre == improve_contract_entry(strict_content_type, model, r)
       IN  IF pre.done THEN Commit(r, NoReply, pre.out)
           ELSE \E rep \in Callable(model, TextReplies) :
                  Commit(r, rep, improve_contract_exit(model, pre.prompt, rep))

get_suggestions ==
  /\ Idle
  /\ \E r \in Requests("/api/suggestions", TextBodies) :
       LET pre == get_suggestions_entry(strict_content_type, model, r)
       IN  IF pre.done THEN Commit(r, NoReply, pre.out)
           ELSE \E rep \in Callable(model, JsonReplies) :
                  Commit(r, rep, get_suggestions_exit(model, pre.prompt, rep))

health_check ==
  /\ Idle
  /\ Commit([endpoint |-> "/api/health", json |-> FALSE, body |-> NoBody], NoReply,
            Ok(HealthBody(model), <<>>, <<>>, Unset))

\* a file's content, or the error page sent in its place
FileBody(path) == JStr(<<"<file>", path>>)
ErrorPage == JStr(<<"<error page>">>)
FileOr(files, path, status) ==
  IF path \in files THEN Outcome(200, FileBody(path), <<>>, <<>>, Unset)
  ELSE Outcome(status, ErrorPage, <<>>, <<>>, Unset)

\* send_file('../frontend/index.html'): the file, or an error when it is
\* not there
send_index(files) == FileOr(files, "/", 500)

\* send_from_directory('../frontend', filename): the file, or 404
send_static(files, path) == FileOr(files, path, 404)

serve_index ==
  /\ Idle
  /\ Commit([endpoint |-> "/", json |-> FALSE, body |-> NoBody], NoReply,
            send_index(frontend))

serve_static ==
  /\ Idle
  /\ \E path \in StaticPaths :
       Commit([endpoint |-> path, json |-> FALSE, body |-> NoBody], NoReply,
              send_static(frontend, path))

\* the response is sent and the request context popped: nothing of the
\* request outlives it
teardown_request ==
  /\ ~Idle
  /\ request' = NoRequest
  /\ reply' = NoReply
  /\ response' = NoResponse
  /\ sent' = <<>>
  /\ log' = <<>>
  /\ response_text' = Unset
  /\ UNCHANGED <<GEMINI_API_KEY, model, strict_content_type, frontend, threads>>

Next ==
  \/ teardown_request
  \/ simplify_document
  \/ analyze_red_flags
  \/ answer_question
  \/ improve_contract
  \/ get_suggestions
  \/ health_check
  \/ serve_index
  \/ serve_static

Spec == Init /\ [][Next]_vars

\* ------------------------------------------------------ concurrent requests
\* The threaded server runs the view functions side by side.  A thread takes
\* a request, runs its view function up to the first return or the model
\* call, gets the model's reply, and sends the response; the module's globals
\* are read at each step, when the code reads them.

\* request of a thread reading the global of another: thread 1's
current_request_shared(ths, w) == ths[1].request

\* flask's request: the request of the thread that reads it
current_request(ths, w) == ths[w].request

\* a view function up to its first return or its model call
view_entry(strict, mdl, files, endpoint, r) ==
  CASE endpoint = "/api/simplify" -> simplify_entry(strict, mdl, r)
    [] endpoint = "/api/redflags" -> analyze_red_flags_entry(strict, mdl, r)
    [] endpoint = "/api/qa" -> answer_question_entry(strict, mdl, r)
    [] endpoint = "/api/improve" -> improve_contract_entry(strict, mdl, r)
    [] endpoint = "/api/suggestions" -> get_suggestions_entry(strict, mdl, r)
    [] endpoint = "/api/health" -> Done(Ok(HealthBody(mdl), <<>>, <<>>, Unset))
    [] endpoint = "/" -> Done(send_index(files))
    [] OTHER -> Done(send_static(files, endpoint))

\* a view function from its model call on
view_exit(mdl, endpoint, prompt, rep) ==
  CASE endpoint = "/api/simplify" -> simplify_exit(mdl, prompt, rep)
    [] endpoint = "/api/redflags" -> analyze_red_flags_exit(mdl, prompt, rep)
    [] endpoint = "/api/qa" -> answer_question_exit(mdl, prompt, rep)
    [] endpoint = "/api/improve" -> improve_contract_exit(mdl, prompt, rep)
    [] OTHER -> get_suggestions_exit(mdl, prompt, rep)

\* the requests the threads take: each route, with and without a body it
\* accepts
ThreadRequests ==
  {[endpoint |-> "/api/simplify", json |-> TRUE, body |-> TextObj(<<"d">>)],
   [endpoint |-> "/api/redflags", json |-> TRUE, body |-> NoBody],
   [endpoint |-> "/api/suggestions", json |-> TRUE, body |-> TextObj(<<" ", "d", "\n">>)],
   [endpoint |-> "/api/qa", json |-> TRUE,
    body |-> JObj(QAObj(JStr(<<"d">>), JStr(KwTerminate)))],
   [endpoint |-> "/api/qa", json |-> TRUE,
    body |-> JObj(QAObj(JStr(<<"d">>), JStr(<<"w", "h", "y", " ">>))
                  @@ (HistoryKey :> JNum(1)))],
   [endpoint |-> "/api/improve", json |-> TRUE, body |-> TextObj(LateFeeOld)],
   [endpoint |-> "/api/health", json |-> FALSE, body |-> NoBody],
   [endpoint |-> "/api/redflags", json |-> TRUE, body |-> TextObj(<<"d">>)],
   [endpoint |-> "/api/qa", json |-> TRUE,
    body |-> JObj(QAObj(JStr(<<"d">>), JStr(KwRisk))
                  @@ (HistoryKey :> JArr(<<Entry("q1", "a1")>>)))],
   [endpoint |-> "/", json |-> FALSE, body |-> NoBody]}
  \cup {[endpoint |-> path, json |-> FALSE, body |-> NoBody] : path \in StaticPaths}

\* the replies the model gives to a thread's call
ThreadReplies(endpoint) ==
  {ReplyFails(<<"ResourceExhausted: 429 quota exceeded">>)}
  \cup (IF endpoint \in {"/api/redflags", "/api/suggestions"}
        THEN {ReplyText(JsonFence \o <<"\n", "[", "1", "]", "\n">> \o Backticks)}
        ELSE {ReplyText(<<"the model's text">>)})

\* thread w moves on; no step of a request touches anything else
Step(w, ctx) ==
  /\ threads' = [threads EXCEPT ![w] = ctx]
  /\ UNCHANGED <<GEMINI_API_KEY, model, strict_content_type, request, reply,
                 response, sent, log, response_text, frontend>>

Respond(ctx, out) ==
  [ctx EXCEPT !.pc = "responded", !.prompt = <<>>,
              !.response = [status |-> out.status, body |-> out.body]]

\* a request arrives and its context is pushed on a free thread
push_request(w) ==
  /\ threads[w].pc = "idle"
  /\ \E r \in ThreadRequests :
       Step(w, [NoContext EXCEPT !.pc = "received", !.request = r])

\* the route's view function runs up to its first return or its model call
dispatch_request(w) ==
  /\ threads[w].pc = "received"
  /\ LET pre == view_entry(strict_content_type, model, frontend,
                           threads[w].request.endpoint, current_request(threads, w))
     IN  IF pre.done THEN Step(w, Respond(threads[w], pre.out))
         ELSE Step(w, [threads[w] EXCEPT !.pc = "calling", !.prompt = pre.prompt])

\* model.generate_content(prompt) returns or raises, and the view function
\* runs to its end
generate_content(w) ==
  /\ threads[w].pc = "calling"
  /\ \E rep \in Callable(model, ThreadReplies(threads[w].request.endpoint)) :
       Step(w, Respond(threads[w],
                       view_exit(model, threads[w].request.endpoint,
                                 threads[w].prompt, rep)))

\* the response is sent and the thread's context popped
pop_request(w) ==
  /\ threads[w].pc = "responded"
  /\ Step(w, NoContext)

NextThreads ==
  \E w \in Workers :
    \/ push_request(w)
    \/ dispatch_request(w)
    \/ generate_content(w)
    \/ pop_request(w)

SpecThreads == Init /\ [][NextThreads]_vars

\* =================================================================== claims
Mutating ==
  {"/api/simplify", "/api/redflags", "/api/qa", "/api/improve", "/api/suggestions"}
Parsing == {"/api/redflags", "/api/suggestions"}

\* a handler of a mutating endpoint has answered the request
Handled == request.endpoint \in Mutating

\* the model was invoked for the request
Invoked == sent # <<>>

\* the payload is an object with an "error" key
HasError == response.body.t = "obj" /\ <<"error">> \in DOMAIN response.body.v

RequiredKeys(r) ==
  IF r.endpoint = "/api/qa" THEN {TextKey, QuestionKey} ELSE {TextKey}

IsObject(r) == r.body.t = "obj"
NonBlank(s) == \E i \in 1..Len(s) : s[i] \notin {" ", "\n", "\t", "\r"}

\* a JSON object that lacks a required key
KeyMissing(r) == IsObject(r) /\ \E k \in RequiredKeys(r) : k \notin DOMAIN r.body.v

\* a JSON object in which a required key holds a blank string
FieldBlank(r) ==
  IsObject(r) /\ \E k \in RequiredKeys(r) :
    k \in DOMAIN r.body.v /\ r.body.v[k].t = "str" /\ ~NonBlank(r.body.v[k].v)

\* a JSON request whose object holds every required key with a non-blank
\* string
PassesValidation(r) ==
  /\ r.json
  /\ IsObject(r)
  /\ \A k \in RequiredKeys(r) :
       k \in DOMAIN r.body.v /\ r.body.v[k].t = "str" /\ NonBlank(r.body.v[k].v)

\* C1: on each of the five mutating endpoints, with or without a credential,
\* a request without a body, or whose object lacks a required key, or in
\* which a required string is blank, is answered 400 with an "error" key.
C1_InvalidGets400 ==
  (Handled /\ (request.body = NoBody \/ KeyMissing(request) \/ FieldBlank(request)))
    => (response.status = 400 /\ HasError)

\* the payload has exactly the keys ks
ObjectWith(b, ks) == b.t = "obj" /\ DOMAIN b.v = ks

CannedShape(endpoint, b) ==
  CASE endpoint = "/api/simplify" ->
         ObjectWith(b, {<<"simplified_text">>}) /\ b.v[<<"simplified_text">>].t = "str"
    [] endpoint = "/api/redflags" ->
         /\ b.t = "arr"
         /\ b.v # <<>>
         /\ \A i \in 1..Len(b.v) :
              ObjectWith(b.v[i], {<<"clause">>, <<"risk">>, <<"explanation">>})
    [] endpoint = "/api/qa" ->
         ObjectWith(b, {<<"answer">>}) /\ b.v[<<"answer">>].t = "str"
    [] endpoint = "/api/improve" ->
         ObjectWith(b, {<<"improved_text">>}) /\ b.v[<<"improved_text">>].t = "str"
    [] endpoint = "/api/suggestions" ->
         ObjectWith(b, {<<"suggestions">>}) /\ b.v[<<"suggestions">>].t = "arr"

\* C2: without a credential (model is None) the model is never invoked,
\* whatever was requested before, and every request that passes validation
\* is answered 200 with the canned payload shape of its endpoint.
C2_NoCredentialCanned ==
  model = None =>
    /\ ~Invoked
    /\ reply = NoReply
    /\ (Handled /\ PassesValidation(request)) =>
         (response.status = 200 /\ CannedShape(request.endpoint, response.body))

C2_Witness ==
  /\ model = None
  /\ request.endpoint = "/api/redflags"
  /\ PassesValidation(request)
  /\ response.status = 200
  /\ Len(response.body.v) = 6

\* the three steps in the words of the specification
RECURSIVE TrimLeft(_), TrimRight(_)
TrimLeft(s) ==
  IF s # <<>> /\ Head(s) \in {" ", "\n", "\t", "\r"} THEN TrimLeft(Tail(s)) ELSE s
TrimRight(s) ==
  IF s # <<>> /\ s[Len(s)] \in {" ", "\n", "\t", "\r"}
  THEN TrimRight(SubSeq(s, 1, Len(s) - 1)) ELSE s

Tagged(t) ==
  /\ Len(t) >= 7
  /\ \A i \in 1..3 : t[i] = Backtick
  /\ <<t[4], t[5], t[6], t[7]>> = <<"j", "s", "o", "n">>
Closed(t) == Len(t) >= 3 /\ \A i \in (Len(t) - 2)..Len(t) : t[i] = Backtick

Extracted(text) ==
  LET a == TrimRight(TrimLeft(text))
      b == IF Tagged(a) THEN [i \in 1..(Len(a) - 7) |-> a[i + 7]] ELSE a
  IN  IF Closed(b) THEN [i \in 1..(Len(b) - 3) |-> b[i]] ELSE b

\* JSON arrays and the values they denote
ArrayValues ==
  {<<(<<"[", "]">>), JArr(<<>>)>>,
   <<(<<"[", "1", "]">>), JArr(<<JNum(1)>>)>>,
   <<(<<"[", "1", ",", " ", "2", "]">>), JArr(<<JNum(1), JNum(2)>>)>>,
   <<(<<"[", "[", "1", "]", ",", "[", "]", "]">>),
     JArr(<<JArr(<<JNum(1)>>), JArr(<<>>)>>)>>,
   <<(<<"[", "{", "\"", "a", "\"", ":", "1", "}", "]">>),
     JArr(<<JObj(<<"a">> :> JNum(1))>>)>>,
   <<(<<"[", "\"", "a", "\"", ",", "n", "u", "l", "l", ",", "t", "r", "u", "e", "]">>),
     JArr(<<JStr(<<"a">>), JNull, JBool(TRUE)>>)>>}

Fenced(j) == JsonFence \o <<"\n">> \o j \o <<"\n">> \o Backticks

\* C3: on /api/redflags and /api/suggestions the text handed to the JSON
\* parser is the model text trimmed, less its first 7 characters when it
\* starts with three backquotes and json, less its last 3 when it then ends
\* with three backquotes; so a JSON array J sent between a json fence and a
\* closing fence comes back as J (under "suggestions" for /api/suggestions).
C3_FenceStripping ==
  /\ response_text.set =>
       (request.endpoint \in Parsing /\ response_text.text = Extracted(reply.text))
  /\ (request.endpoint \in Parsing /\ Invoked /\ ~reply.raised) =>
       /\ response_text.set
       /\ \A jv \in ArrayValues :
            reply.text \in {Fenced(jv[1]), <<" ">> \o Fenced(jv[1]) \o <<" ">>} =>
              /\ response.status = 200
              /\ response.body = IF request.endpoint = "/api/redflags" THEN jv[2]
                                 ELSE JObj(<<"suggestions">> :> jv[2])

C3_Witness ==
  /\ request.endpoint = "/api/suggestions"
  /\ reply.text = <<" ">> \o Fenced(<<"[", "1", ",", " ", "2", "]">>) \o <<" ">>
  /\ response_text = Set(<<"\n", "[", "1", ",", " ", "2", "]", "\n">>)
  /\ response.body = JObj(<<"suggestions">> :> JArr(<<JNum(1), JNum(2)>>))

\* the fixed one-element fallback of each endpoint
FallbackBody(endpoint) ==
  IF endpoint = "/api/redflags"
  THEN JArr(<<JObj((<<"clause">> :> JStr(<<"Unable to parse contract clauses">>))
                   @@ (<<"risk">> :> JStr(<<"moderate">>))
                   @@ (<<"explanation">> :> JStr(<<"There was an issue analyzing your contract. Please try uploading again or contact support.">>)))>>)
  ELSE JObj(<<"suggestions">> :>
            JArr(<<JObj((<<"title">> :> JStr(<<"Review Contract Terms">>))
                        @@ (<<"description">> :> JStr(<<"There was an issue analyzing your contract. Please try again or contact support.">>)))>>))

\* the model answered with a text
Answered == request.endpoint \in Parsing /\ model # None /\ Invoked /\ ~reply.raised

C5_ParsedValueReturned ==
  (Answered /\ json_loads(Extracted(reply.text)).ok) =>
    /\ response.status = 200
    /\ response.body =
         IF request.endpoint = "/api/redflags"
         THEN json_loads(Extracted(reply.text)).val
         ELSE JObj(<<"suggestions">> :> json_loads(Extracted(reply.text)).val)

\* the question of a /api/qa request that passes validation, as sent
AskedWithoutModel ==
  model = None /\ request.endpoint = "/api/qa" /\ PassesValidation(request)
Question == Lower(request.body.v[QuestionKey].v)
Answer == response.body.v[<<"answer">>].v

\* the question holds the keyword, in any letter case
Mentions(kw) == InStr(kw, Question)

\* C6 as claimed: without a credential, a valid question that contains
\* "terminate" (in any letter case) gets the termination answer.
C6_TerminateAlways ==
  (AskedWithoutModel /\ Mentions(KwTerminate)) =>
    (response.status = 200 /\ Answer = MockTerminate)

\* C6: without a credential, a valid question that contains "terminate" (in
\* any letter case) and neither "risk" nor "danger" gets the termination
\* answer.
C6_TerminateUnlessRisk ==
  (AskedWithoutModel /\ Mentions(KwTerminate)
     /\ ~Mentions(KwRisk) /\ ~Mentions(KwDanger)) =>
    (response.status = 200 /\ Answer = MockTerminate)

C6_Witness ==
  /\ AskedWithoutModel
  /\ request.body.v[QuestionKey].v
       = <<"w", "h", "y">> \o <<"T", "e", "r", "m", "i", "n", "A", "T", "E">>
  /\ Answer = MockTerminate

\* C7 as claimed: without a credential, a valid question that contains none
\* of "risk", "terminate", "financial" gets the default answer.
C7_DefaultWithoutThree ==
  (AskedWithoutModel /\ ~Mentions(KwRisk) /\ ~Mentions(KwTerminate)
     /\ ~Mentions(KwFinancial)) =>
    (response.status = 200 /\ Answer = MockDefault)

\* C7: without a credential, a valid question that contains none of "risk",
\* "danger", "terminate", "exit", "leave", "financial", "money", "cost",
\* "pay" (in any letter case) gets the default answer.
C7_DefaultWithoutNine ==
  (AskedWithoutModel
     /\ \A kw \in {KwRisk, KwDanger, KwTerminate, KwExit, KwLeave, KwFinancial,
                   KwMoney, KwCost, KwPay} : ~Mentions(kw)) =>
    (response.status = 200 /\ Answer = MockDefault)

C7_Witness ==
  /\ AskedWithoutModel
  /\ request.body.v[QuestionKey].v = <<"w", "h", "y", " ">>
  /\ Answer = MockDefault

\* the fixed message of each endpoint's 500 response
GenericMessage(endpoint) ==
  CASE endpoint = "/api/simplify" -> <<"Failed to process document. Please try again.">>
    [] endpoint = "/api/redflags" -> <<"Failed to analyze document. Please try again.">>
    [] endpoint = "/api/qa" -> <<"Failed to process question. Please try again.">>
    [] endpoint = "/api/improve" -> <<"Failed to improve contract. Please try again.">>
    [] endpoint = "/api/suggestions" -> <<"Failed to generate suggestions. Please try again.">>

\* the history a /api/qa request carries ([] when it carries none)
HistoryOf(r) ==
  IF HistoryKey \in DOMAIN r.body.v THEN r.body.v[HistoryKey] ELSE JArr(<<>>)

NoHistory(h) ==
  \/ h.t = "null"
  \/ h.t = "bool" /\ ~h.v
  \/ h.t = "num" /\ h.v = 0
  \/ h.t \in {"str", "arr"} /\ Len(h.v) = 0
  \/ h.t = "obj" /\ DOMAIN h.v = {}

\* the entries the context is built from: the last min(3, n)
Window(h) ==
  LET n == Len(h.v)
      m == IF n < 3 THEN n ELSE 3
  IN  [i \in 1..m |-> h.v[n - m + i]]

WellFormed(e) == e.t = "obj" /\ {QuestionKey, AnswerKey} \subseteq DOMAIN e.v

\* the prompt of the request can be built: any request but a /api/qa one
\* whose history is no list or has a malformed entry among its last three
PromptBuilds(r) ==
  \/ r.endpoint # "/api/qa"
  \/ NoHistory(HistoryOf(r))
  \/ /\ HistoryOf(r).t = "arr"
     /\ \A i \in 1..Len(Window(HistoryOf(r))) : WellFormed(Window(HistoryOf(r))[i])

\* a failed invocation: 500, an "error" key, the endpoint's fixed message
\* that does not hold the cause, and no second invocation
FailureIsGeneric ==
  (Handled /\ model # None /\ Invoked /\ reply.raised) =>
    /\ response.status = 500
    /\ HasError
    /\ response.body.v[<<"error">>] = JStr(GenericMessage(request.endpoint))
    /\ ~InStr(reply.cause, response.body.v[<<"error">>].v)
    /\ Len(sent) = 1

\* C8 as claimed: with a credential, a failed invocation is answered 500
\* with a generic error and not retried, and every request that passes
\* validation invokes the model exactly once.
C8_ValidInvokesOnce ==
  /\ FailureIsGeneric
  /\ (Handled /\ model # None /\ PassesValidation(request)) => Len(sent) = 1

\* C8: with a credential, a failed invocation is answered 500 with an
\* "error" key and the endpoint's fixed message, without the cause, and is
\* not retried; no request invokes the model more than once; a request that
\* passes validation invokes it exactly once, unless its prompt cannot be
\* built (/api/qa with a history that is no list, or with an entry among the
\* last three that lacks "question" or "answer"): that request is answered
\* 500 with the same fixed message and the model is not invoked.
C8_InvokedOnceOrPromptFails ==
  /\ FailureIsGeneric
  /\ Len(sent) <= 1
  /\ (Handled /\ model # None /\ PassesValidation(request)) =>
       IF PromptBuilds(request) THEN Len(sent) = 1
       ELSE /\ ~Invoked
            /\ response.status = 500
            /\ response.body = JObj(<<"error">> :> JStr(GenericMessage(request.endpoint)))

C8_Witness ==
  /\ Handled
  /\ model # None
  /\ PassesValidation(request)
  /\ reply = ReplyFails(<<"ResourceExhausted: 429 quota exceeded">>)
  /\ Len(sent) = 1
  /\ response.status = 500

\* C9: GET /api/health answers 200 with status "healthy", version "1.0.0"
\* and gemini_configured, which is false when no credential is set and true
\* exactly when a credential is set and the model handle was created,
\* whatever was requested before.
C9_HealthReportsCredential ==
  request.endpoint = "/api/health" =>
    /\ response.status = 200
    /\ ObjectWith(response.body, {<<"status">>, <<"gemini_configured">>, <<"version">>})
    /\ response.body.v[<<"status">>] = JStr(<<"healthy">>)
    /\ response.body.v[<<"version">>] = JStr(<<"1.0.0">>)
    /\ response.body.v[<<"gemini_configured">>].t = "bool"
    /\ response.body.v[<<"gemini_configured">>].v
         <=> (GEMINI_API_KEY # None /\ model = GenerativeModel)
    /\ GEMINI_API_KEY = None => ~response.body.v[<<"gemini_configured">>].v
    /\ GEMINI_API_KEY = JStr(<<"k", "e", "y">>) => response.body.v[<<"gemini_configured">>].v

C9_Witness ==
  /\ request.endpoint = "/api/health"
  /\ log = <<>>
  /\ GEMINI_API_KEY = JStr(<<>>)
  /\ response.body.v[<<"gemini_configured">>] = JBool(FALSE)

\* the context the specification describes: nothing for no history, else
\* the header and a Q/A block for each of the last min(3, n) entries, in
\* their order
RECURSIVE Blocks(_)
Blocks(es) ==
  IF es = <<>> THEN <<>>
  ELSE <<"Q: ">> \o Format(Head(es).v[QuestionKey]) \o <<"\nA: ">>
         \o Format(Head(es).v[AnswerKey]) \o <<"\n\n">> \o Blocks(Tail(es))

ExpectedContext(h) ==
  IF NoHistory(h) THEN <<>>
  ELSE <<"\n\nPrevious conversation:\n">> \o Blocks(Window(h))

\* C10: on /api/qa with a credential the context in the prompt is built from
\* the last min(3, n) history entries, in order; entries before them are
\* not read, so a malformed one among them changes nothing; no history
\* gives the empty context.
C10_ContextFromLastThree ==
  (model # None /\ request.endpoint = "/api/qa" /\ PassesValidation(request)
     /\ (NoHistory(HistoryOf(request)) \/ HistoryOf(request).t = "arr")) =>
    IF PromptBuilds(request)
    THEN sent = <<QAPrompt(TrimRight(TrimLeft(request.body.v[TextKey].v)),
                           ExpectedContext(HistoryOf(request)),
                           TrimRight(TrimLeft(request.body.v[QuestionKey].v)))>>
    ELSE ~Invoked /\ response.status = 500

\* four entries, the first without an answer: the prompt holds the last three
C10_Witness ==
  /\ model # None
  /\ request.endpoint = "/api/qa"
  /\ PassesValidation(request)
  /\ HistoryOf(request)
       = JArr(<<JObj(QuestionKey :> JStr(<<"q3">>)), Entry("q1", "a1"),
                Entry("q2", "a2"), Entry("q1", "a1")>>)
  /\ Len(sent) = 1
  /\ InStr(<<"\n\nPrevious conversation:\n", "Q: ", "q1", "\nA: ", "a1", "\n\n",
             "Q: ", "q2", "\nA: ", "a2", "\n\n", "Q: ", "q1", "\nA: ", "a1", "\n\n",
             "User's question: ">>, sent[1])
  /\ response.status = 200

\* ---------------------------------------------------------------------- C11
Responded(w) == threads[w].pc = "responded"

\* two threads holding a response to the same request hold the same response
SameRequestSameResponse ==
  \A w1, w2 \in Workers :
    Responded(w1) /\ Responded(w2) /\ threads[w1].request = threads[w2].request
      => threads[w1].response = threads[w2].response

\* C11: no request handler retains state across requests.  Under every
\* interleaving of the steps of concurrent requests to any endpoints, no step
\* changes the model handle (nor the credential) set at process start; and
\* without a credential the response to a request depends on the request
\* alone: whenever two threads hold responses to equal requests, whatever was
\* served before or is being served beside them, status and body are equal.
C11_NoStateRetained ==
  /\ [][model' = model /\ GEMINI_API_KEY' = GEMINI_API_KEY]_vars
  /\ [](model = None => SameRequestSameResponse)

\* without a credential, two threads have answered the same valid request to
\* a mutating endpoint
C11_Witness ==
  /\ model = None
  /\ \E w1, w2 \in Workers :
       /\ w1 # w2
       /\ Responded(w1) /\ Responded(w2)
       /\ threads[w1].request = threads[w2].request
       /\ threads[w1].request.endpoint \in Mutating
       /\ threads[w1].response.status = 200

====
